---- MODULE Spec2Model ----
(***************************************************************************)
(* plotnine/stats/stat_identity.py: the identity statistic.                *)
(*                                                                         *)
(* The class has one class attribute, DEFAULT_PARAMS, and one classmethod, *)
(* compute_panel(cls, data, scales, **params), whose body is `return data`.*)
(* Python passes objects by reference, so the model keeps a heap of        *)
(* dataset objects and lets compute_panel take and return references.  An  *)
(* invocation is two steps, as in the interpreter: the call binds the      *)
(* arguments to the parameters of the signature (and raises TypeError when *)
(* they do not fit), the body then returns.  The layer pipeline that owns  *)
(* the datasets, the scales and the layer is not part of the file; the     *)
(* little of it that is needed to drive the statistic is modelled from the *)
(* specification.                                                          *)
(***************************************************************************)
EXTENDS Integers, Sequences, FiniteSets, TLC

\* Bounds of the model.
MaxRows == 2          \* rows of the layer's dataset, all panels together
MaxCalls == 2         \* invocations of compute_panel in one behaviour

Panels == {1, 2}
CellValues == {0, 1}
ColumnOrders == {<<"PANEL", "x">>, <<"x", "PANEL">>}
ScalesArgs == {"scales", "None"}

VARIABLES
    layer,           \* the layer built around the statistic
    heap,            \* dataset objects: reference -> table
    panel,           \* the pipeline's reference to each panel's dataset
    scalesObj,       \* the pipeline's scales object
    DEFAULT_PARAMS,  \* the class attribute stat_identity.DEFAULT_PARAMS
    pc,              \* per panel: idle, called, returned, raised
    call,            \* per panel: the arguments of the latest invocation
    frame,           \* per panel: the locals of the running invocation
    result,          \* per panel: the reference the latest completed call returned
    chained,         \* per panel: the latest call's data was the previous result
    varied,          \* per panel: the latest call's scales/params differ from the previous call's
    ncalls,          \* invocations so far
    modified         \* the panels whose returned dataset the pipeline has modified in place

vars == <<layer, heap, panel, scalesObj, DEFAULT_PARAMS, pc, call, frame,
          result, chained, varied, ncalls, modified>>

----------------------------------------------------------------------------
\* Values

Null == 0
EmptyParams == [k \in {} |-> ""]
NoFrame == [cls |-> "", data |-> Null, scales |-> "None", params |-> EmptyParams]
NoCall == [data |-> Null, scales |-> "None", params |-> EmptyParams]

\* The keyword mappings a caller passes as **params: none, overriding the
\* defaults, an unrecognised key, and keys that are parameter names.
ParamsChoices ==
    { EmptyParams,
      [geom |-> "line", position |-> "jitter"],
      [na_rm |-> "True"],
      [data |-> "other"],
      [cls |-> "other"] }

RowsFor(cols) ==
    { r \in [1..Len(cols) -> Panels \cup CellValues] :
        \A i \in 1..Len(cols) :
            r[i] \in (IF cols[i] = "PANEL" THEN Panels ELSE CellValues) }

LayerDatasets ==
    UNION { { [columns |-> cols, rows |-> rs] :
                rs \in UNION { [1..n -> RowsFor(cols)] : n \in 0..MaxRows } } :
            cols \in ColumnOrders }

ColumnIndex(d, name) ==
    CHOOSE i \in 1..Len(d.columns) : d.columns[i] = name

\* The pipeline partitions the layer's dataset into panels.
PanelSubset(d, p) ==
    [columns |-> d.columns,
     rows |-> SelectSeq(d.rows, LAMBDA r : r[ColumnIndex(d, "PANEL")] = p)]

TrainedScales(d) ==
    [x |-> { d.rows[i][ColumnIndex(d, "x")] : i \in 1..Len(d.rows) }]

----------------------------------------------------------------------------
\* stat_identity

stat_identity_DEFAULT_PARAMS_bar == [geom |-> "bar", position |-> "stack"]

\* DEFAULT_PARAMS = {'geom': 'point', 'position': 'identity'}
stat_identity_DEFAULT_PARAMS == [geom |-> "point", position |-> "identity"]

ParameterNames == {"cls", "data", "scales"}

\* A signature without **params: every keyword is unexpected.
Bind_strict(cls, args, kwargs) ==
    IF DOMAIN kwargs # {}
    THEN [ok |-> FALSE, exc |-> "TypeError", locals |-> NoFrame]
    ELSE [ok |-> TRUE, exc |-> "",
          locals |-> [cls |-> cls, data |-> args[1], scales |-> args[2],
                      params |-> kwargs]]

\* def compute_panel(cls, data, scales, **params): the call binds cls (the
\* classmethod's class), the positional arguments to data and scales, and
\* collects the keywords in params; a keyword that names a parameter already
\* bound is a TypeError ("got multiple values for argument").
Bind(cls, args, kwargs) ==
    IF DOMAIN kwargs \cap ParameterNames # {}
    THEN [ok |-> FALSE, exc |-> "TypeError", locals |-> NoFrame]
    ELSE [ok |-> TRUE, exc |-> "",
          locals |-> [cls |-> cls, data |-> args[1], scales |-> args[2],
                      params |-> kwargs]]

Store == [heap |-> heap, scales |-> scalesObj, DEFAULT_PARAMS |-> DEFAULT_PARAMS]

FreshRef(h) == (CHOOSE r \in DOMAIN h : \A q \in DOMAIN h : q <= r) + 1

Reverse(sq) == [i \in 1..Len(sq) |-> sq[Len(sq) + 1 - i]]

\* Variants of compute_panel with a defect each.
\* return data.iloc[:-1]: a new dataset without the last row.
compute_panel_filter(store, cls, data, scales, params) ==
    LET r == FreshRef(store.heap)
        d == store.heap[data]
        c == [d EXCEPT !.rows = SubSeq(d.rows, 1, Len(d.rows) - 1)]
    IN [ret |-> r, store |-> [store EXCEPT !.heap = (r :> c) @@ store.heap]]

\* return data.copy()
compute_panel_copy(store, cls, data, scales, params) ==
    LET r == FreshRef(store.heap)
    IN [ret |-> r,
        store |-> [store EXCEPT !.heap = (r :> store.heap[data]) @@ store.heap]]

\* the rows are dropped when the params carry na_rm.
compute_panel_na_rm(store, cls, data, scales, params) ==
    IF "na_rm" \in DOMAIN params
    THEN compute_panel_filter(store, cls, data, scales, params)
    ELSE [ret |-> data, store |-> store]

\* data.drop(data.index[-1], inplace=True); return data
compute_panel_inplace(store, cls, data, scales, params) ==
    [ret |-> data,
     store |-> [store EXCEPT !.heap =
                   [@ EXCEPT ![data].rows = SubSeq(@, 1, Len(@) - 1)]]]

\* return data.iloc[::-1]: a new dataset with the rows in reverse order.
compute_panel_reverse(store, cls, data, scales, params) ==
    LET r == FreshRef(store.heap)
        d == store.heap[data]
    IN [ret |-> r,
        store |-> [store EXCEPT !.heap =
                      (r :> [d EXCEPT !.rows = Reverse(d.rows)]) @@ store.heap]]

\* scales.x.reset(); return data
compute_panel_reset_scales(store, cls, data, scales, params) ==
    [ret |-> data,
     store |-> IF scales = "None" THEN store
               ELSE [store EXCEPT !.scales = [x |-> {}]]]

\* the dataset is kept on the class, which every panel shares: the first
\* panel's dataset is returned to all.
compute_panel_shared(store, cls, data, scales, params) ==
    [ret |-> CHOOSE r \in DOMAIN store.heap : \A q \in DOMAIN store.heap : r <= q,
     store |-> store]

\* cls.DEFAULT_PARAMS.update(params); return data
compute_panel_update_defaults(store, cls, data, scales, params) ==
    [ret |-> data,
     store |-> [store EXCEPT !.DEFAULT_PARAMS =
                   [k \in DOMAIN @ \cup DOMAIN params |->
                       IF k \in DOMAIN params THEN params[k] ELSE @[k]]]]

\* return data
compute_panel(store, cls, data, scales, params) ==
    [ret |-> data, store |-> store]

----------------------------------------------------------------------------
\* The state after the class is defined and the pipeline has mapped and
\* partitioned the layer's dataset.
Init ==
    /\ \E d \in LayerDatasets :
         /\ heap = [p \in Panels |-> PanelSubset(d, p)]
         /\ scalesObj = TrainedScales(d)
    /\ panel = [p \in Panels |-> p]
    /\ layer = [built |-> FALSE, explicit |-> {}, geom |-> "", position |-> ""]
    /\ DEFAULT_PARAMS = stat_identity_DEFAULT_PARAMS
    /\ pc = [p \in Panels |-> "idle"]
    /\ call = [p \in Panels |-> NoCall]
    /\ frame = [p \in Panels |-> NoFrame]
    /\ result = [p \in Panels |-> Null]
    /\ chained = [p \in Panels |-> FALSE]
    /\ varied = [p \in Panels |-> FALSE]
    /\ ncalls = 0
    /\ modified = {}

\* The layer is built with the statistic and the user's explicit settings;
\* what the user leaves out comes from the statistic's DEFAULT_PARAMS.
LayerChoices == { EmptyParams, [geom |-> "line"] }

BuildLayer(explicit) ==
    /\ ~layer.built
    /\ layer' = [built |-> TRUE,
                 explicit |-> DOMAIN explicit,
                 geom |-> IF "geom" \in DOMAIN explicit
                          THEN explicit.geom ELSE DEFAULT_PARAMS["geom"],
                 position |-> IF "position" \in DOMAIN explicit
                              THEN explicit.position ELSE DEFAULT_PARAMS["position"]]
    /\ UNCHANGED <<heap, panel, scalesObj, DEFAULT_PARAMS, pc, call, frame,
                   result, chained, varied, ncalls, modified>>

\* cls.compute_panel(data, scales, **params): the call.  src says whether the
\* pipeline passes the panel's dataset or the result of the previous call.
Invoke(p, src, sc, kw) ==
    /\ layer.built
    /\ pc[p] # "called"
    /\ ncalls < MaxCalls
    /\ src = "result" => (pc[p] = "returned" /\ result[p] # Null)
    /\ LET d == IF src = "result" THEN result[p] ELSE panel[p]
           b == Bind("stat_identity", <<d, sc>>, kw)
       IN /\ call' = [call EXCEPT ![p] = [data |-> d, scales |-> sc, params |-> kw]]
          /\ pc' = [pc EXCEPT ![p] = IF b.ok THEN "called" ELSE "raised"]
          /\ frame' = [frame EXCEPT ![p] = b.locals]
    /\ chained' = [chained EXCEPT ![p] = (src = "result")]
    /\ varied' = [varied EXCEPT ![p] =
                     /\ pc[p] = "returned"
                     /\ <<sc, kw>> # <<call[p].scales, call[p].params>>]
    /\ ncalls' = ncalls + 1
    /\ UNCHANGED <<layer, heap, panel, scalesObj, DEFAULT_PARAMS, result, modified>>

\* The body runs and the call returns.
Return(p) ==
    /\ pc[p] = "called"
    /\ LET f == frame[p]
           out == compute_panel(Store, f.cls, f.data, f.scales, f.params)
       IN /\ result' = [result EXCEPT ![p] = out.ret]
          /\ heap' = out.store.heap
          /\ scalesObj' = out.store.scales
          /\ DEFAULT_PARAMS' = out.store.DEFAULT_PARAMS
    /\ pc' = [pc EXCEPT ![p] = "returned"]
    /\ frame' = [frame EXCEPT ![p] = NoFrame]
    /\ UNCHANGED <<layer, panel, call, chained, varied, ncalls, modified>>

\* An in-place modification of a dataset object: its last row is dropped.
DropLastRow(h, r) ==
    [h EXCEPT ![r].rows = SubSeq(h[r].rows, 1, Len(h[r].rows) - 1)]

\* After the call has returned, the pipeline modifies the dataset in place,
\* through the reference the call returned ...
ModifyResult(p) ==
    /\ pc[p] = "returned"
    /\ result[p] \in DOMAIN heap
    /\ Len(heap[result[p]].rows) > 0
    /\ heap' = DropLastRow(heap, result[p])
    /\ modified' = modified \cup {p}
    /\ UNCHANGED <<layer, panel, scalesObj, DEFAULT_PARAMS, pc, call, frame,
                   result, chained, varied, ncalls>>

\* ... or through its own reference to the panel's dataset.
ModifyPanel(p) ==
    /\ pc[p] = "returned"
    /\ Len(heap[panel[p]].rows) > 0
    /\ heap' = DropLastRow(heap, panel[p])
    /\ modified' = modified \cup {p}
    /\ UNCHANGED <<layer, panel, scalesObj, DEFAULT_PARAMS, pc, call, frame,
                   result, chained, varied, ncalls>>

Next ==
    \/ \E e \in LayerChoices : BuildLayer(e)
    \/ \E p \in Panels, src \in {"panel", "result"}, sc \in ScalesArgs,
          kw \in ParamsChoices : Invoke(p, src, sc, kw)
    \/ \E p \in Panels : Return(p)
    \/ \E p \in Panels : ModifyResult(p)
    \/ \E p \in Panels : ModifyPanel(p)

Spec == Init /\ [][Next]_vars

----------------------------------------------------------------------------
\* Properties

\* Two tables agree in row count, column set, column order and every cell.
SameTable(a, b) ==
    /\ Len(a.rows) = Len(b.rows)
    /\ { a.columns[i] : i \in 1..Len(a.columns) }
         = { b.columns[i] : i \in 1..Len(b.columns) }
    /\ a.columns = b.columns
    /\ \A i \in 1..Len(a.rows) :
         /\ Len(a.rows[i]) = Len(b.rows[i])
         /\ \A j \in 1..Len(a.rows[i]) : a.rows[i][j] = b.rows[i][j]

\* The step is panel p's call returning, or panel p being invoked.
Returns(p) == pc[p] = "called" /\ pc'[p] = "returned"
Invoked(p) == ncalls' = ncalls + 1 /\ call'[p].data # Null /\ pc[p] # "called"
                 /\ pc'[p] \in {"called", "raised"}
                 /\ \A q \in Panels \ {p} : pc'[q] = pc[q] /\ call'[q] = call[q]

\* C1 (identity law): whenever compute_panel returns, whatever the scales and
\* params of the call, the dataset it returns equals the dataset it was given
\* (as it was when the body ran) in row count, column set, column order and
\* every cell.
C1_IdentityLaw ==
    [][\A p \in Panels :
         Returns(p) =>
            /\ result'[p] \in DOMAIN heap'
            /\ SameTable(heap'[result'[p]], heap[call[p].data])]_vars

C1_Witness ==
    \E p \in Panels :
        /\ pc[p] = "returned"
        /\ call[p].params # EmptyParams
        /\ Len(heap[result[p]].rows) >= 2
        /\ heap[result[p]].rows[1] # heap[result[p]].rows[2]

\* C2 (default metadata): the defaults the class exposes are exactly
\* geom -> 'point' and position -> 'identity', and a layer built with the
\* statistic and no explicit geom or position has geom "point" and position
\* "identity".
C2_DefaultMetadata ==
    /\ DOMAIN DEFAULT_PARAMS = {"geom", "position"}
    /\ DEFAULT_PARAMS["geom"] = "point"
    /\ DEFAULT_PARAMS["position"] = "identity"
    /\ (layer.built /\ layer.explicit = {}) =>
          (layer.geom = "point" /\ layer.position = "identity")

C2_Witness == layer.built /\ layer.explicit = {} /\ ncalls > 0

\* C3 (parameter indifference): a call on the same dataset object as the
\* previous call of the panel, with other scales and/or params, returns what
\* the previous call returned: the same object with the same contents.
C3_ParameterIndifference ==
    [][\A p \in Panels :
         (Returns(p) /\ varied[p]) =>
            /\ result'[p] = result[p]
            /\ SameTable(heap'[result'[p]], heap[result[p]])]_vars

C3_Witness ==
    \E p \in Panels :
        /\ pc[p] = "returned"
        /\ varied[p]
        /\ call[p].params = [na_rm |-> "True"]
        /\ Len(heap[result[p]].rows) > 0

\* C4 (no mutation of the input): neither the call nor the return of
\* compute_panel changes the dataset object the caller passed: it has the
\* same rows, columns, order and cells after the step as before it.
C4_NoMutation ==
    [][\A p \in Panels :
         (Returns(p) \/ Invoked(p)) =>
            /\ call'[p].data \in DOMAIN heap'
            /\ SameTable(heap'[call'[p].data], heap[call'[p].data])]_vars

C4_Witness ==
    \E p \in Panels :
        /\ pc[p] = "returned"
        /\ p \notin modified
        /\ Len(heap[call[p].data].rows) > 0

\* C5 (idempotence): compute_panel applied, with the same scales and params,
\* to the result of compute_panel returns a dataset with the contents of
\* that result.
C5_Idempotence ==
    [][\A p \in Panels :
         (Returns(p) /\ chained[p] /\ ~varied[p]) =>
            /\ result'[p] \in DOMAIN heap'
            /\ SameTable(heap'[result'[p]], heap[result[p]])]_vars

C5_Witness ==
    \E p \in Panels :
        /\ pc[p] = "returned"
        /\ chained[p]
        /\ ~varied[p]
        /\ Len(heap[result[p]].rows) >= 2
        /\ heap[result[p]].rows[1] # heap[result[p]].rows[2]

\* C6 as stated: no invocation, whatever keys its params mapping contains,
\* ends in an error.
C6_NeverRaises == \A p \in Panels : pc[p] # "raised"

\* C6, amended: an invocation ends in an error only when a key of its params
\* mapping is one of the names cls, data, scales; every other invocation is
\* running or has returned a dataset.
C6_RaisesOnlyOnParameterName ==
    \A p \in Panels :
        /\ pc[p] = "raised" =>
              DOMAIN call[p].params \cap {"cls", "data", "scales"} # {}
        /\ (call[p].data # Null
              /\ DOMAIN call[p].params \cap {"cls", "data", "scales"} = {}) =>
              \/ pc[p] = "called" /\ frame[p].data = call[p].data
              \/ pc[p] = "returned" /\ result[p] \in DOMAIN heap

C6_Witness ==
    \E p \in Panels :
        /\ pc[p] = "returned"
        /\ call[p].params = [na_rm |-> "True"]
        /\ result[p] \in DOMAIN heap

\* C7 (scales untouched): neither the call nor the return of compute_panel
\* changes the pipeline's scales object.
C7_ScalesUntouched ==
    [][(\E p \in Panels : Returns(p) \/ Invoked(p)) =>
          scalesObj' = scalesObj]_vars

C7_Witness ==
    \E p \in Panels :
        /\ pc[p] = "returned"
        /\ call[p].scales = "scales"
        /\ scalesObj.x # {}

\* C8 (concurrent panels): under every interleaving of the panels'
\* invocations, a call returns the dataset of its own panel and leaves the
\* other panels' datasets, arguments, locals and results as they were.
C8_ConcurrentPanels ==
    [][\A p \in Panels :
         Returns(p) =>
            /\ result'[p] = panel[p]
            /\ \A q \in Panels \ {p} :
                 /\ result'[q] = result[q]
                 /\ heap'[panel[q]] = heap[panel[q]]
                 /\ frame'[q] = frame[q]
                 /\ call'[q] = call[q]
                 /\ pc'[q] = pc[q]]_vars

C8_Witness ==
    \E p, q \in Panels :
        /\ p # q
        /\ pc[p] = "returned"
        /\ pc[q] = "called"
        /\ result[p] = panel[p]
        /\ heap[panel[p]] # heap[panel[q]]

\* C9 (no state across invocations): after any sequence of calls the class
\* attribute DEFAULT_PARAMS is {geom: 'point', position: 'identity'}, and
\* what a call returned is the dataset of that call, however many calls came
\* before it.
C9_Stateless ==
    /\ DEFAULT_PARAMS = [geom |-> "point", position |-> "identity"]
    /\ \A p \in Panels : pc[p] = "returned" => result[p] = call[p].data

C9_Witness ==
    /\ ncalls >= 2
    /\ \E p \in Panels :
         /\ pc[p] = "returned"
         /\ "geom" \in DOMAIN call[p].params

\* C10 (the result aliases the input): what compute_panel returned is the
\* very object it was given, and an in-place modification made through the
\* returned reference or through the panel's reference shows through both.
C10_ResultAliasesInput ==
    /\ [](\A p \in Panels : pc[p] = "returned" => result[p] = call[p].data)
    /\ [][\A p \in Panels :
            (pc[p] = "returned" /\ pc'[p] = "returned"
                /\ result'[p] = result[p] /\ result[p] \in DOMAIN heap) =>
               /\ heap'[result[p]] = heap'[panel[p]]
               /\ (heap'[result[p]] # heap[result[p]]
                     <=> heap'[panel[p]] # heap[panel[p]])]_vars

C10_Witness ==
    \E p \in Panels :
        /\ pc[p] = "returned"
        /\ p \in modified
        /\ result[p] = panel[p]

====
